---- MODULE Spec2Model ----
(***************************************************************************)
(* Model of digikey_mcp_server.py: the OAuth2 token cache (TokenManager),  *)
(* the request relay (_make_request) with its 401 retry, and the tool      *)
(* wrappers that shape what the relay returns.                             *)
(*                                                                         *)
(* Callers are threads: caller 0 is the import-time thread that fetches    *)
(* the first token (line 87); the callers in Threads run tool invocations. *)
(* Time is in seconds and advances in steps of TickSeconds while callers   *)
(* are idle, blocked on the lock or waiting for the network.               *)
(***************************************************************************)
EXTENDS Integers, Sequences, FiniteSets, TLC

\* ------------------------------------------------------------ bounds
MaxCalls == 2
MaxTicks == 2
TickSeconds == 1700

\* ------------------------------------------------- program constants
BufferSeconds == 300
DefaultExpiresIn == 3600
None == -1

Threads == {1, 2}
Callers == {0} \cup Threads
Free == -1

\* expires_in values the token endpoint answers with; Omitted: no such field
Omitted == 0
ProviderExpiresIn == {Omitted, 300}

VARIABLES
  creds,              \* CLIENT_ID and CLIENT_SECRET are both set
  phase,              \* "startup", "serving" or "aborted"
  access_token,       \* TokenManager.access_token: None or a token id
  token_expires_at,   \* TokenManager.token_expires_at: None or a time
  lock,               \* TokenManager.lock: Free or the caller holding it
  now,                \* datetime.now(), in seconds
  pc,                 \* each caller's position
  ctx,                \* the call site of the caller's current get_token()
  args,               \* the tool invocation's arguments
  headers,            \* the token in the Authorization header of the current attempt
  caller_headers,     \* the token in the header mapping the tool passed to _make_request
  retry_count,        \* _make_request's retry_count
  expires_in,         \* _refresh_token's local expires_in
  reqs,               \* the HTTP API requests the caller's relay call has sent
  resp,               \* the response the relay call classified last
  relayed,            \* what _make_request returned to the tool (or raised)
  result,             \* what the tool invocation returned (or raised)
  issued,             \* tokens issued so far by the token endpoint
  grant,              \* the latest successful exchange: token, time, expires_in
  expired_by,         \* callers that force-expired since the last store of an expiry
  exch,               \* token-exchange calls made by the caller's current get_token()
  since,              \* expiries stored (by anyone) since the caller's force-expire
  waited,             \* the token a refresh stored while the caller blocked on the lock
  forced,             \* force-expires done by the caller's current relay call
  racing,             \* a refresh was in flight when the caller force-expired
  started,            \* tool invocations begun
  ticks               \* clock steps taken

vars == <<creds, phase, access_token, token_expires_at, lock, now, pc, ctx, args,
          headers, caller_headers, retry_count, expires_in, reqs, resp, relayed, result, issued,
          grant, expired_by, exch, since, waited, forced, racing, started, ticks>>

\* ------------------------------------------------- JSON-compatible values
Str(s) == [type |-> "str", s |-> s]
Num(v) == [type |-> "int", v |-> v]
Dict(d) == [type |-> "dict", d |-> d]
List(n, c) == [type |-> "list", len |-> n, compacted |-> c]
FStr(parts) == [type |-> "fstr", parts |-> parts]
Text(body) == [type |-> "text", of |-> body]
UrlOf(path, query) == [type |-> "url", path |-> path, query |-> query]
NoResult == [type |-> "none"]
Raised(e) == [type |-> "raise", exc |-> e]
IsDict(v) == v.type = "dict"
IsList(v) == v.type = "list"
Has(v, k) == IsDict(v) /\ k \in DOMAIN v.d
EmptyDict == Dict(<<>>)
\* Python truthiness of a JSON value ("not result", "result[...]" in a condition)
Truthy(v) ==
  CASE v.type = "dict" -> DOMAIN v.d # {}
    [] v.type = "list" -> v.len > 0
    [] v.type = "int" -> v.v # 0
    [] v.type = "str" -> v.s # ""
    [] OTHER -> FALSE
Min(a, b) == IF a < b THEN a ELSE b
Max(a, b) == IF a > b THEN a ELSE b

\* ------------------------------------------------- TokenManager
\* the buffer taken as 5 hours
NeedsRefresh_Hours(tok, exp, t) ==
  tok = None \/ exp = None \/ t >= exp - 60 * BufferSeconds

\* the comparison of line 49 turned around
NeedsRefresh_Inverted(tok, exp, t) ==
  tok = None \/ exp = None \/ t <= exp - BufferSeconds

\* the expiry never tested
NeedsRefresh_NoExpiry(tok, exp, t) ==
  tok = None \/ exp = None

\* the expiry compared strictly and without the buffer
NeedsRefresh_StrictNoBuffer(tok, exp, t) ==
  tok = None \/ exp = None \/ t > exp

\* lines 48-49: the token is missing or expires within the 5 minute buffer
NeedsRefresh(tok, exp, t) ==
  tok = None \/ exp = None \/ t >= exp - BufferSeconds

\* the credentials never checked
CredentialsMissing_Unchecked(cr) == FALSE

\* lines 55-56: CLIENT_ID or CLIENT_SECRET is not set
CredentialsMissing(cr) == ~cr

\* the lock taken whoever holds it
CanAcquire_Always(l) == TRUE

\* line 46: "with self.lock" goes on only when no caller holds the lock
CanAcquire(l) == l = Free

\* the lock kept by a caller whose refresh raised
LockAfterRaise_Held(l) == l

\* line 46: the with-statement releases the lock when _refresh_token raises
LockAfterRaise(l) == Free

\* the first token kept whatever later exchanges return
AccessToken_KeptFirst(ok, old, new) == IF ok /\ old = None THEN new ELSE old

\* the cached token dropped when the exchange fails
AccessToken_Dropped(ok, old, new) == IF ok THEN new ELSE None

\* lines 70-75: access_token is assigned only after the status check passed
AccessToken(ok, old, new) == IF ok THEN new ELSE old

\* the default left out
ExpiresIn_NoDefault(field) == field

\* line 78: token_data.get("expires_in", 3600)
ExpiresIn(field) == IF field = Omitted THEN DefaultExpiresIn ELSE field

InGetToken(c) == pc[c] \in {"gt_lock", "rf_net", "rf_tok", "gt_ret"}

\* ------------------------------------------------- _make_request
\* resp.json(): the parsed body, or an exception when the body is no JSON
RespJson(rsp) == IF rsp.body.json THEN rsp.body.val ELSE Raised("JSONDecodeError")

\* the retry budget forgotten
IsRetry_NoBudget(rsp, rc) == rsp.status = 401

\* a budget of two retries
IsRetry_Twice(rsp, rc) == rsp.status = 401 /\ rc <= 1

\* lines 116-117: a 401 on the first attempt is retried
IsRetry(rsp, rc) == rsp.status = 401 /\ rc = 0

\* the not-found object with a fixed message
NotFound_NoUrl(url) ==
  Dict([error |-> Str("Not Found"),
        message |-> FStr(<<Str("Endpoint returned 404. This may be an incorrect part number or unsupported endpoint.")>>),
        status_code |-> Num(404)])

\* line 126: the not-found object
NotFound(url) ==
  Dict([error |-> Str("Not Found"),
        message |-> FStr(<<Str("Endpoint "), url,
                           Str(" returned 404. This may be an incorrect part number or unsupported endpoint.")>>),
        status_code |-> Num(404)])

\* the error object always carrying the raw text
ApiError_TextOnly(rsp) ==
  Dict([error |-> Str("API Error"),
        message |-> Text(rsp.body.val),
        status_code |-> Num(rsp.status)])

\* lines 130-134: the error object of any other status that is not 200
ApiError(rsp) ==
  Dict([error |-> Str("API Error"),
        message |-> IF rsp.body.json THEN rsp.body.val ELSE Text(rsp.body.val),
        status_code |-> Num(rsp.status)])

\* line 128: the statuses the relay passes through as success
IsSuccess(status) == status = 200

\* lines 124-136: what _make_request returns for a response it does not retry
MakeRequestReturn(url, rsp) ==
  IF rsp.status = 404 THEN NotFound(url)
  ELSE IF ~IsSuccess(rsp.status) THEN ApiError(rsp)
  ELSE RespJson(rsp)

\* ------------------------------------------------- tools
PlainTools == {"get_category_by_id", "get_product_pricing", "get_digi_reel_pricing",
               "get_pricing_by_quantity"}
ListingTools == {"search_manufacturers", "search_categories"}
CheckedTools == {"product_details", "get_alternate_packaging", "get_product_associations"}
AllTools == PlainTools \cup ListingTools \cup CheckedTools \cup
            {"keyword_search", "search_product_substitutions", "get_product_media"}

\* lines 252-254, 335-337, 363-365, 403-405, 435-437: the cap on a limit
CapLimit(limit, maximum) == IF limit > maximum THEN maximum ELSE limit

\* the hard maximum each tool states
MaxLimit(tool) == IF tool \in ListingTools THEN 500 ELSE 50

\* len(xs[:k]) for a list of n items
SliceLen(n, k) == IF k >= 0 THEN Min(n, k) ELSE Max(n + k, 0)

\* xs[:k] when len(xs) > k, xs otherwise (lines 344-349, 447-449)
Truncate(xs, k) == IF xs.len > k THEN List(SliceLen(xs.len, k), xs.compacted) ELSE xs

\* [_compact_product(p) for p in xs], and the per-item dict of _compact_media_result
CompactItems(xs) == List(xs.len, TRUE)

\* lines 138-188 on the fields a product carries at top level: the essential
\* fields that are neither null nor "" are kept, everything else is dropped
EssentialFields == {"DigiKeyPartNumber", "ProductDescription", "DetailedDescription",
                    "QuantityAvailable", "UnitPrice", "MinimumOrderQuantity",
                    "ProductUrl", "DatasheetUrl", "StandardPricing"}
CompactProduct(p) ==
  LET keep == {k \in DOMAIN p.d \cap EssentialFields :
                 p.d[k].type # "null" /\ p.d[k] # Str("")}
  IN  Dict([k \in keep |-> p.d[k]])

\* lines 190-209
CompactSearchResult(r, compact) ==
  IF ~compact THEN r
  ELSE IF ~IsDict(r) THEN Raised("AttributeError")
  ELSE LET counts == {k \in DOMAIN r.d \cap {"ProductsCount", "ExactManufacturerProductsCount"} :
                        r.d[k].type # "null"}
           prods == IF Has(r, "Products") /\ Truthy(r.d["Products"]) THEN {"Products"} ELSE {}
       IN  Dict([k \in counts \cup prods |->
                   IF k = "Products" THEN CompactItems(r.d[k]) ELSE r.d[k]])

MediaTypes == {"Photos", "Documents", "Videos"}

\* lines 211-235
CompactMediaResult(r, compact) ==
  IF ~compact THEN r
  ELSE LET keep == IF IsDict(r) THEN {k \in DOMAIN r.d \cap MediaTypes : IsList(r.d[k])} ELSE {}
       IN  Dict([k \in keep |-> CompactItems(r.d[k])])

\* lines 256, 294, 339, 367, 388, 407-414, 439, 462-466, 479-483, 501, 523, 555
Url(a) ==
  CASE a.tool = "keyword_search" -> UrlOf("/products/v4/search/keyword", <<>>)
    [] a.tool = "product_details" -> UrlOf("/products/v4/search/{product_number}/productdetails", <<>>)
    [] a.tool = "search_manufacturers" -> UrlOf("/products/v4/search/manufacturers", <<>>)
    [] a.tool = "search_categories" -> UrlOf("/products/v4/search/categories", <<>>)
    [] a.tool = "get_category_by_id" -> UrlOf("/products/v4/search/categories/{category_id}", <<>>)
    [] a.tool = "search_product_substitutions" ->
         UrlOf("/products/v4/search/{product_number}/substitutions",
               <<Num(CapLimit(a.limit, MaxLimit(a.tool)))>>)
    [] a.tool = "get_product_media" -> UrlOf("/products/v4/search/{product_number}/media", <<>>)
    [] a.tool = "get_product_pricing" -> UrlOf("/products/v4/search/{product_number}/productpricing", <<>>)
    [] a.tool = "get_digi_reel_pricing" -> UrlOf("/products/v4/search/{product_number}/digireelpricing", <<>>)
    [] a.tool = "get_pricing_by_quantity" -> UrlOf("/products/v4/search/{product_number}/pricingbyquantity", <<>>)
    [] a.tool = "get_alternate_packaging" -> UrlOf("/products/v4/search/{product_number}/alternatepackaging", <<>>)
    [] OTHER -> UrlOf("/products/v4/search/{product_number}/associations", <<>>)

\* line 278 against lines 304, 341, ...: keyword_search alone POSTs
Method(a) == IF a.tool = "keyword_search" THEN "POST" ELSE "GET"

\* lines 259-262: the JSON body of keyword_search; the other tools send none
Data(a) ==
  IF a.tool = "keyword_search"
  THEN Dict([Keywords |-> Str("{keywords}"), Limit |-> Num(CapLimit(a.limit, MaxLimit(a.tool)))])
  ELSE [type |-> "null"]

\* the tools that pass their customer_id on to _get_headers
CustomerTools == {"product_details", "get_product_pricing", "get_digi_reel_pricing",
                  "get_pricing_by_quantity", "get_alternate_packaging",
                  "get_product_associations"}

\* lines 94-99: the headers other than Authorization
OtherHeaders(a) ==
  [client |-> "{CLIENT_ID}", content |-> "application/json", site |-> "US",
   language |-> "en", currency |-> "USD",
   customer |-> IF a.tool \in CustomerTools THEN "{customer_id}" ELSE "0"]

\* lines 102-112: the request _make_request sends
Request(a, token) ==
  [method |-> Method(a), url |-> Url(a), data |-> Data(a), auth |-> token,
   other |-> OtherHeaders(a)]

\* the retry sent without the query string
Retry_BareUrl(req, token) ==
  [req EXCEPT !.auth = token, !.url = UrlOf(@.path, <<>>)]

\* lines 120-122: the retry is the same request with the Authorization of the
\* copied headers replaced
Retry(req, token) == [req EXCEPT !.auth = token]

\* the new Authorization written into the mapping that was passed in
PassedHeaders_InPlace(h, token) == token

\* line 120: headers.copy() leaves the mapping that was passed in as it is
PassedHeaders(h, token) == h

\* line 313: product_details' answer to an empty payload
EmptyResponse ==
  Dict([error |-> Str("Empty Response"),
        message |-> FStr(<<Str("No product details found for "), Str("{product_number}"),
                           Str(". Try using the DigiKey part number (format: XXX-XXX-ND) instead of manufacturer part number.")>>)])

\* lines 306-323
ProductDetails(a, r) ==
  IF Has(r, "error") THEN r
  ELSE IF ~Truthy(r) THEN EmptyResponse
  ELSE IF a.compact /\ IsDict(r)
       THEN (IF Truthy(CompactProduct(r)) THEN CompactProduct(r) ELSE r)
       ELSE r

\* lines 343-351 and 371-379
Listing(a, key, r) ==
  LET limit == CapLimit(a.limit, MaxLimit(a.tool))
  IN  IF IsList(r) THEN Truncate(r, limit)
      ELSE IF Has(r, key) /\ IsList(r.d[key])
           THEN Dict([r.d EXCEPT ![key] = Truncate(r.d[key], limit)])
           ELSE r

\* lines 417-421
Substitutions(a, r) ==
  IF a.compact /\ Has(r, "Products") /\ IsList(r.d["Products"])
  THEN Dict([r.d EXCEPT !["Products"] = CompactItems(r.d["Products"])])
  ELSE r

\* lines 443-451
ProductMedia(a, r) ==
  LET maxItems == CapLimit(a.limit, MaxLimit(a.tool))
      cut == IF IsDict(r)
             THEN Dict([k \in DOMAIN r.d |->
                          IF k \in MediaTypes /\ IsList(r.d[k])
                          THEN Truncate(r.d[k], maxItems) ELSE r.d[k]])
             ELSE r
  IN  CompactMediaResult(cut, a.compact)

\* lines 528-540
AlternatePackaging(a, r) ==
  IF Has(r, "error") THEN r
  ELSE IF a.compact /\ IsDict(r)
       THEN (IF Has(r, "AlternatePackagings") /\ Has(r.d["AlternatePackagings"], "AlternatePackaging")
             THEN Dict([r.d EXCEPT !["AlternatePackagings"] =
                          Dict([@.d EXCEPT !["AlternatePackaging"] = CompactItems(@)])])
             ELSE IF Has(r, "AlternatePackagingProducts")
                  THEN Dict([r.d EXCEPT !["AlternatePackagingProducts"] = CompactItems(@)])
                  ELSE r)
       ELSE r

AssociationKeys == {"Kits", "MatingProducts", "AssociatedProducts", "ForUseWithProducts"}

\* lines 560-572
ProductAssociations(a, r) ==
  IF Has(r, "error") THEN r
  ELSE IF a.compact /\ Has(r, "ProductAssociations") /\ IsDict(r.d["ProductAssociations"])
       THEN Dict([r.d EXCEPT !["ProductAssociations"] =
                    Dict([k \in DOMAIN @.d |->
                            IF k \in AssociationKeys /\ IsList(@.d[k])
                            THEN CompactItems(@.d[k]) ELSE @.d[k]])])
       ELSE r

\* what the tool makes of the value r that _make_request returned
ToolReturn(a, r) ==
  CASE a.tool = "keyword_search" -> CompactSearchResult(r, a.compact)
    [] a.tool = "product_details" -> ProductDetails(a, r)
    [] a.tool = "search_manufacturers" -> Listing(a, "Manufacturers", r)
    [] a.tool = "search_categories" -> Listing(a, "Categories", r)
    [] a.tool = "search_product_substitutions" -> Substitutions(a, r)
    [] a.tool = "get_product_media" -> ProductMedia(a, r)
    [] a.tool = "get_alternate_packaging" -> AlternatePackaging(a, r)
    [] a.tool = "get_product_associations" -> ProductAssociations(a, r)
    [] OTHER -> r

\* an exception raised inside _make_request passes through the tool unchanged
ToolResult(a, r) == IF r.type = "raise" THEN r ELSE ToolReturn(a, r)

\* ------------------------------------------------- inputs
NoArgs == [tool |-> "none", compact |-> FALSE, limit |-> 0]
NoResp == [status |-> 0, body |-> [json |-> FALSE, val |-> NoResult]]
NoGrant == [tok |-> None, at |-> 0, e |-> 0, field |-> Omitted]

JsonBody(v) == [json |-> TRUE, val |-> v]
RawBody(s) == [json |-> FALSE, val |-> Str(s)]

\* the relay under concurrency: one pass-through tool, one body per status class
CoreArgs == {[tool |-> "get_category_by_id", compact |-> FALSE, limit |-> 0]}
CoreResponses ==
  [status : {200, 401}, body : {JsonBody(Dict([Name |-> Str("Resistors")]))}]

\* how the token exchange fails: raise_for_status() on an error status (line 72),
\* or requests.post() itself when the endpoint cannot be reached (line 68)
CoreFailures == {"HTTPError"}
ToolFailures == {"HTTPError", "ConnectionError"}

\* the tools, single-threaded: every tool with its flags and limits
Limits == {-1, 0, 2, 501}
LimitTools == ListingTools \cup {"keyword_search", "search_product_substitutions", "get_product_media"}
CompactTools == (CheckedTools \cup {"keyword_search", "search_product_substitutions", "get_product_media"})
ToolArgs ==
  {a \in [tool : AllTools, compact : BOOLEAN, limit : Limits] :
     /\ a.tool \notin CompactTools => a.compact = FALSE
     /\ a.tool \notin LimitTools => a.limit = 0}

JNull == [type |-> "null"]
Payloads ==
  { EmptyDict,
    Dict([ProductsCount |-> Num(2), ExactManufacturerProductsCount |-> JNull,
          Products |-> List(2, FALSE)]),
    Dict([QuantityAvailable |-> Num(0), ProductUrl |-> Str("https://www.digikey.com/p"),
          DatasheetUrl |-> Str(""), Parameters |-> List(3, FALSE)]),
    Dict([Parameters |-> List(3, FALSE)]),
    List(600, FALSE),
    Dict([Manufacturers |-> List(600, FALSE)]),
    Dict([Categories |-> List(600, FALSE)]),
    Dict([Photos |-> List(60, FALSE), Documents |-> List(2, FALSE), ProductNumber |-> Str("P1")]),
    Dict([AlternatePackagings |-> Dict([AlternatePackaging |-> List(2, FALSE)])]),
    Dict([AlternatePackagingProducts |-> List(2, FALSE)]),
    Dict([ProductAssociations |-> Dict([Kits |-> List(1, FALSE), MatingProducts |-> JNull])]) }
ToolBodies == {JsonBody(v) : v \in Payloads} \cup {RawBody("<html>Bad Gateway</html>")}
ToolResponses == [status : {200, 201, 401, 404, 500}, body : ToolBodies]

\* ------------------------------------------------- actions
\* tools invoked while the module is still being imported
ServerReady_Early(ph) == ph # "aborted"

\* lines 87-88 and 575-576: mcp.run() serves tools only once the import, and
\* with it the first get_token(), is over
ServerReady(ph) == ph = "serving"

\* a thread takes up a tool invocation (its previous one, if any, is over);
\* the tool calls _get_headers(), which calls get_token() (line 93)
ToolCall(t, ArgSet) ==
  /\ ServerReady(phase)
  /\ pc[t] \in {"idle", "done"}
  /\ started < MaxCalls
  /\ \E a \in ArgSet : args' = [args EXCEPT ![t] = a]
  /\ pc' = [pc EXCEPT ![t] = "gt_lock"]
  /\ ctx' = [ctx EXCEPT ![t] = "headers"]
  /\ headers' = [headers EXCEPT ![t] = None]
  /\ caller_headers' = [caller_headers EXCEPT ![t] = None]
  /\ retry_count' = [retry_count EXCEPT ![t] = 0]
  /\ expires_in' = [expires_in EXCEPT ![t] = 0]
  /\ reqs' = [reqs EXCEPT ![t] = <<>>]
  /\ resp' = [resp EXCEPT ![t] = NoResp]
  /\ relayed' = [relayed EXCEPT ![t] = NoResult]
  /\ result' = [result EXCEPT ![t] = NoResult]
  /\ exch' = [exch EXCEPT ![t] = 0]
  /\ since' = [since EXCEPT ![t] = 0]
  /\ waited' = [waited EXCEPT ![t] = None]
  /\ forced' = [forced EXCEPT ![t] = 0]
  /\ racing' = [racing EXCEPT ![t] = FALSE]
  /\ started' = started + 1
  /\ UNCHANGED <<creds, phase, access_token, token_expires_at, lock, now, issued,
                 grant, expired_by, ticks>>

\* an exception leaves get_token(): startup aborts (line 87), a tool raises
Raise(c, e) ==
  IF ctx[c] = "startup"
  THEN /\ phase' = "aborted"
       /\ pc' = [pc EXCEPT ![c] = "aborted"]
       /\ result' = [result EXCEPT ![c] = Raised(e)]
       /\ UNCHANGED relayed
  ELSE /\ pc' = [pc EXCEPT ![c] = "done"]
       /\ relayed' = [relayed EXCEPT ![c] = IF Len(reqs[c]) > 0 THEN Raised(e) ELSE @]
       /\ result' = [result EXCEPT ![c] = Raised(e)]
       /\ UNCHANGED phase

\* the request the caller's relay call sent last
Sent(t) == reqs[t][Len(reqs[t])]

\* the callers whose force-expire is still waiting for its get_token() to return
Forcing == {u \in Threads : ctx[u] = "retry" /\ InGetToken(u)}

\* line 46 to line 68: take the lock, test the cached token; when it needs a
\* refresh, check the credentials and send the token-exchange request
GetTokenEnter(c) ==
  /\ pc[c] = "gt_lock"
  /\ CanAcquire(lock)
  /\ \/ /\ ~NeedsRefresh(access_token, token_expires_at, now)
        /\ lock' = c
        /\ pc' = [pc EXCEPT ![c] = "gt_ret"]
        /\ UNCHANGED <<phase, relayed, result, exch, since>>
     \/ /\ NeedsRefresh(access_token, token_expires_at, now)
        /\ CredentialsMissing(creds)
        /\ Raise(c, "ValueError")
        /\ UNCHANGED <<lock, exch, since>>
     \/ /\ NeedsRefresh(access_token, token_expires_at, now)
        /\ ~CredentialsMissing(creds)
        /\ lock' = c
        /\ pc' = [pc EXCEPT ![c] = "rf_net"]
        /\ exch' = [exch EXCEPT ![c] = @ + 1]
        /\ UNCHANGED <<phase, relayed, result, since>>
  /\ UNCHANGED <<creds, access_token, token_expires_at, now, ctx, args, headers,
                 caller_headers, retry_count, expires_in, reqs, resp, issued, grant,
                 expired_by, waited, forced, racing, started, ticks>>

\* lines 68-75: the token endpoint answers; a failure raises out of get_token()
\* and the with-statement releases the lock, a success stores the new token
TokenResponse(c, Failures) ==
  /\ pc[c] = "rf_net"
  /\ \/ /\ \E e \in Failures : Raise(c, e)
        /\ lock' = LockAfterRaise(lock)
        /\ access_token' = AccessToken(FALSE, access_token, None)
        /\ UNCHANGED <<expires_in, issued, grant>>
     \/ /\ \E field \in ProviderExpiresIn :
             /\ expires_in' = [expires_in EXCEPT ![c] = ExpiresIn(field)]
             /\ grant' = [tok |-> issued + 1, at |-> now, e |-> ExpiresIn(field),
                          field |-> field]
        /\ issued' = issued + 1
        /\ access_token' = AccessToken(TRUE, access_token, issued + 1)
        /\ pc' = [pc EXCEPT ![c] = "rf_tok"]
        /\ UNCHANGED <<phase, lock, relayed, result>>
  /\ UNCHANGED <<creds, token_expires_at, now, ctx, args, headers, caller_headers,
                 retry_count, reqs, resp, expired_by, exch, since, waited, forced, racing,
                 started, ticks>>

\* lines 78-79: the expiry of the new token is stored
StoreExpiry(c) ==
  /\ pc[c] = "rf_tok"
  /\ token_expires_at' = now + expires_in[c]
  /\ expired_by' = {}
  /\ waited' = [u \in Callers |-> IF u # c /\ pc[u] = "gt_lock" THEN access_token ELSE waited[u]]
  /\ since' = [u \in Threads |-> IF u \in Forcing THEN since[u] + 1 ELSE since[u]]
  /\ pc' = [pc EXCEPT ![c] = "gt_ret"]
  /\ UNCHANGED <<creds, phase, access_token, lock, now, ctx, args, headers,
                 caller_headers, retry_count, expires_in, reqs, resp, relayed, result,
                 issued, grant, exch, forced, racing, started, ticks>>

\* line 51: get_token() returns the cached token and releases the lock; the
\* caller goes on: startup is over (line 88), or the request is sent with the
\* token in its Authorization header (lines 93, 110-112 and 121-122)
GetTokenReturn(c) ==
  /\ pc[c] = "gt_ret"
  /\ lock' = Free
  /\ IF ctx[c] = "startup"
     THEN /\ phase' = "serving"
          /\ pc' = [pc EXCEPT ![c] = "serving"]
          /\ UNCHANGED <<headers, caller_headers, retry_count, reqs>>
     ELSE /\ headers' = [headers EXCEPT ![c] = access_token]
          /\ caller_headers' = [caller_headers EXCEPT ![c] =
                                  IF ctx[c] = "retry" THEN PassedHeaders(@, access_token)
                                  ELSE access_token]
          /\ retry_count' = [retry_count EXCEPT ![c] = IF ctx[c] = "retry" THEN 1 ELSE 0]
          /\ reqs' = [reqs EXCEPT ![c] =
                        IF ctx[c] = "retry" THEN Append(@, Retry(@[Len(@)], access_token))
                        ELSE Append(@, Request(args[c], access_token))]
          /\ pc' = [pc EXCEPT ![c] = "http"]
          /\ UNCHANGED phase
  /\ UNCHANGED <<creds, access_token, token_expires_at, now, ctx, args, expires_in,
                 resp, relayed, result, issued, grant, expired_by, exch, since,
                 waited, forced, racing, started, ticks>>

\* lines 110-136 and the tool's own lines after _make_request returns: the
\* upstream answers (or the transport fails); a first 401 force-expires the
\* token without the lock (line 119) and asks for a token again (line 121),
\* any other response is classified and shaped into the tool's return value
HttpResponse(t, RespSet) ==
  /\ pc[t] = "http"
  /\ \/ /\ pc' = [pc EXCEPT ![t] = "done"]
        /\ relayed' = [relayed EXCEPT ![t] = Raised("ConnectionError")]
        /\ result' = [result EXCEPT ![t] = Raised("ConnectionError")]
        /\ UNCHANGED <<token_expires_at, ctx, resp, expired_by, exch, since, waited, forced, racing>>
     \/ \E r \in RespSet :
          /\ IsRetry(r, retry_count[t])
          /\ token_expires_at' = now
          /\ expired_by' = expired_by \cup {t}
          /\ forced' = [forced EXCEPT ![t] = @ + 1]
          /\ racing' = [racing EXCEPT ![t] = \E c \in Callers : pc[c] \in {"rf_net", "rf_tok"}]
          /\ ctx' = [ctx EXCEPT ![t] = "retry"]
          /\ exch' = [exch EXCEPT ![t] = 0]
          /\ since' = [since EXCEPT ![t] = 0]
          /\ waited' = [waited EXCEPT ![t] = None]
          /\ pc' = [pc EXCEPT ![t] = "gt_lock"]
          /\ UNCHANGED <<resp, relayed, result>>
     \/ \E r \in RespSet :
          /\ ~IsRetry(r, retry_count[t])
          /\ resp' = [resp EXCEPT ![t] = r]
          /\ relayed' = [relayed EXCEPT ![t] = MakeRequestReturn(Sent(t).url, r)]
          /\ result' = [result EXCEPT ![t] = ToolResult(args[t], MakeRequestReturn(Sent(t).url, r))]
          /\ pc' = [pc EXCEPT ![t] = "done"]
          /\ UNCHANGED <<token_expires_at, ctx, expired_by, exch, since, waited, forced, racing>>
  /\ UNCHANGED <<creds, phase, access_token, lock, now, args, headers, caller_headers,
                 retry_count, expires_in, reqs, issued, grant, started, ticks>>

\* the clock advances; the statements between a network answer and the return
\* of get_token() (lines 74-79, 51) take no time on this scale
Tick ==
  /\ phase # "aborted"
  /\ ticks < MaxTicks
  /\ \A c \in Callers : pc[c] \notin {"rf_tok", "gt_ret"}
  /\ now' = now + TickSeconds
  /\ ticks' = ticks + 1
  /\ UNCHANGED <<creds, phase, access_token, token_expires_at, lock, pc, ctx, args,
                 headers, caller_headers, retry_count, expires_in, reqs, resp, relayed,
                 result, issued, grant, expired_by, exch, since, waited, forced, racing, started>>

\* lines 39-42 and 85-87: the cache is empty and the import-time thread is
\* about to fetch the first token
Init ==
  /\ creds \in BOOLEAN
  /\ phase = "startup"
  /\ access_token = None
  /\ token_expires_at = None
  /\ lock = Free
  /\ now = 0
  /\ pc = [c \in Callers |-> IF c = 0 THEN "gt_lock" ELSE "idle"]
  /\ ctx = [c \in Callers |-> IF c = 0 THEN "startup" ELSE "none"]
  /\ args = [c \in Callers |-> NoArgs]
  /\ headers = [c \in Callers |-> None]
  /\ caller_headers = [c \in Callers |-> None]
  /\ retry_count = [c \in Callers |-> 0]
  /\ expires_in = [c \in Callers |-> 0]
  /\ reqs = [c \in Callers |-> <<>>]
  /\ resp = [c \in Callers |-> NoResp]
  /\ relayed = [c \in Callers |-> NoResult]
  /\ result = [c \in Callers |-> NoResult]
  /\ issued = 0
  /\ grant = NoGrant
  /\ expired_by = {}
  /\ exch = [c \in Callers |-> 0]
  /\ since = [c \in Threads |-> 0]
  /\ waited = [c \in Callers |-> None]
  /\ forced = [c \in Callers |-> 0]
  /\ racing = [c \in Callers |-> FALSE]
  /\ started = 0
  /\ ticks = 0

Next ==
  \/ \E c \in Callers : GetTokenEnter(c)
  \/ \E c \in Callers : TokenResponse(c, CoreFailures)
  \/ \E c \in Callers : StoreExpiry(c)
  \/ \E c \in Callers : GetTokenReturn(c)
  \/ \E t \in Threads : ToolCall(t, CoreArgs)
  \/ \E t \in Threads : HttpResponse(t, CoreResponses)
  \/ Tick

Spec == Init /\ [][Next]_vars

\* one thread runs the tools one after another; no time passes, so the cached
\* token is refreshed only at startup, after a 401 and when it is short-lived
NextTools ==
  \/ \E c \in {0, 1} : GetTokenEnter(c)
  \/ \E c \in {0, 1} : TokenResponse(c, ToolFailures)
  \/ \E c \in {0, 1} : StoreExpiry(c)
  \/ \E c \in {0, 1} : GetTokenReturn(c)
  \/ ToolCall(1, ToolArgs)
  \/ HttpResponse(1, ToolResponses)

SpecTools == Init /\ [][NextTools]_vars

\* every caller that can take a step is scheduled, and every network call
\* that was made returns
Fairness ==
  /\ \A c \in Callers : /\ WF_vars(GetTokenEnter(c))
                        /\ WF_vars(TokenResponse(c, CoreFailures))
                        /\ WF_vars(StoreExpiry(c))
                        /\ WF_vars(GetTokenReturn(c))
  /\ \A t \in Threads : WF_vars(HttpResponse(t, CoreResponses))

\* the callers without the clock: whether get_token() refreshes is then
\* decided by the provider's expires_in (300: every call refreshes, omitted:
\* the cached token is reused) and by the force-expire of the 401 path
NextRelay ==
  \/ \E c \in Callers : GetTokenEnter(c)
  \/ \E c \in Callers : TokenResponse(c, CoreFailures)
  \/ \E c \in Callers : StoreExpiry(c)
  \/ \E c \in Callers : GetTokenReturn(c)
  \/ \E t \in Threads : ToolCall(t, CoreArgs)
  \/ \E t \in Threads : HttpResponse(t, CoreResponses)

FairSpec == Init /\ [][NextRelay]_vars /\ Fairness

\* ------------------------------------------------- claims
Finished(t) == pc[t] = "done"
Entering(c) == pc[c] = "gt_lock" /\ pc'[c] # "gt_lock"
Returning(c) == pc[c] = "gt_ret" /\ pc'[c] = "http"
StillFresh == /\ access_token # None
              /\ token_expires_at # None
              /\ now < token_expires_at - BufferSeconds
ErrorKeys == {"error", "message", "status_code"}
IsEnvelope(v) == IsDict(v) /\ DOMAIN v.d = ErrorKeys
LastUrl(t) == reqs[t][Len(reqs[t])].url

\* C1 as stated: a caller that blocked on the lock while a refresh was in
\* flight never makes a token exchange of its own and returns the token that
\* refresh stored, so one exchange serves all N callers.
C1_NoThunderingHerd ==
  \A c \in Callers :
    waited[c] # None =>
      /\ pc[c] \notin {"rf_net", "rf_tok"}
      /\ pc[c] = "gt_ret" => (exch[c] = 0 /\ access_token = waited[c])

\* C1 amended: a caller that blocked on the lock while a refresh was in flight
\* and finds, when it gets the lock, the cached token present with more than
\* 5 minutes left makes no token exchange and returns the cached token, which
\* is the one that refresh stored or a newer one.
C1_BlockedCallerReuses ==
  [][\A c \in Callers :
       /\ (Entering(c) /\ waited[c] # None /\ StillFresh) =>
            /\ pc'[c] = "gt_ret"
            /\ exch'[c] = 0
            /\ issued' = issued
            /\ access_token' = access_token
            /\ access_token >= waited[c]
       /\ (Returning(c) /\ waited[c] # None /\ exch[c] = 0) =>
            /\ headers'[c] = access_token
            /\ headers'[c] >= waited[c]]_vars

C1_Witness ==
  \E c \in Threads : \E d \in Threads :
    /\ c # d
    /\ pc[c] = "http" /\ waited[c] # None /\ exch[c] = 0 /\ headers[c] = waited[c]
    /\ pc[d] = "http" /\ exch[d] = 1 /\ headers[d] = headers[c]

C3_ValidAtReturn ==
  \A c \in Callers :
    pc[c] = "gt_ret" =>
      /\ now < token_expires_at - BufferSeconds
      /\ access_token = grant.tok
      /\ now - grant.at < grant.e

\* C4: once a refresh has stored token T with expires_at = t0 + E, a
\* get_token() that tests the cache at a time before t0 + E - 300, no
\* force-expire having come in between, makes no token exchange and returns T.
C4_CacheHit ==
  [][\A c \in Callers :
       /\ (/\ Entering(c)
           /\ grant.tok # None
           /\ expired_by = {}
           /\ now < grant.at + grant.e - BufferSeconds) =>
            /\ pc'[c] = "gt_ret"
            /\ exch'[c] = exch[c]
            /\ issued' = issued
            /\ access_token' = grant.tok
       /\ (Returning(c) /\ exch[c] = 0 /\ expired_by = {}) => headers'[c] = grant.tok]_vars

C4_Witness ==
  \E c \in Threads :
    /\ pc[c] = "gt_ret" /\ exch[c] = 0 /\ expired_by = {}
    /\ access_token = grant.tok /\ grant.e = DefaultExpiresIn
    /\ now > grant.at /\ now < grant.at + grant.e - BufferSeconds

C6_NeverRaises ==
  \A t \in Threads : Finished(t) => result[t].type # "raise"

\* C7 as stated: every response with a status in 200..299 and a JSON body is
\* returned by the relay as that parsed body.
C7_SuccessPassThrough ==
  \A t \in Threads :
    (Finished(t) /\ resp[t].status \in 200..299 /\ resp[t].body.json) =>
      relayed[t] = resp[t].body.val

\* C8: a relay call whose final response is 404, on the first attempt or on
\* the retry, returns the not-found object {error, message, status_code: 404}
\* whose message contains the URL that was requested, and does not raise.
C8_NotFound ==
  \A t \in Threads :
    (Finished(t) /\ resp[t].status = 404) =>
      /\ IsEnvelope(relayed[t])
      /\ relayed[t].d["error"] = Str("Not Found")
      /\ relayed[t].d["status_code"] = Num(404)
      /\ relayed[t].d["message"].type = "fstr"
      /\ \E i \in DOMAIN relayed[t].d["message"].parts :
           relayed[t].d["message"].parts[i] = LastUrl(t)

C8_Witness ==
  \E t \in Threads :
    /\ Finished(t) /\ resp[t].status = 404 /\ retry_count[t] = 1
    /\ IsEnvelope(relayed[t]) /\ args[t].tool = "search_product_substitutions"

\* C9: a final response whose status is outside 200..299 and is not 404 is
\* returned as {error, message, status_code} with that status and with the
\* parsed JSON error body as message, or the raw text when it is no JSON.
C9_ApiError ==
  \A t \in Threads :
    (Finished(t) /\ resp[t] # NoResp /\ resp[t].status \notin 200..299 /\ resp[t].status # 404) =>
      /\ IsEnvelope(relayed[t])
      /\ relayed[t].d["status_code"] = Num(resp[t].status)
      /\ relayed[t].d["message"] =
           IF resp[t].body.json THEN resp[t].body.val ELSE Text(resp[t].body.val)

C9_Witness ==
  \E t \in Threads :
    /\ Finished(t) /\ resp[t].status = 500 /\ resp[t].body.json
    /\ relayed[t].d["message"] = resp[t].body.val

\* C10 as stated: whenever the relay returned a structured error, the tool
\* returns that error envelope, whatever the tool and its compact flag.
C10_ErrorEnvelope ==
  \A t \in Threads :
    (Finished(t) /\ IsEnvelope(relayed[t])) => result[t] = relayed[t]

InRefresh(c) == pc[c] \in {"rf_net", "rf_tok"}
WritesToken(c) == pc[c] = "rf_net" /\ pc'[c] = "rf_tok"
WritesExpiry(c) == pc[c] = "rf_tok" /\ pc'[c] = "gt_ret"
ForceExpires(c) == forced'[c] = forced[c] + 1
RefreshFails(c) == pc[c] \in {"gt_lock", "rf_net"} /\ pc'[c] \in {"done", "aborted"}

\* C11: every step of a refresh that fails, because the credentials are
\* missing or the token endpoint answers with an error status, leaves
\* access_token and token_expires_at as they are; the failure ends
\* get_token() with an exception and with the lock released.
C11_FailedRefreshFrame ==
  [][\A c \in Callers :
       /\ (pc[c] = "gt_lock" /\ pc'[c] = "rf_net") =>
            (access_token' = access_token /\ token_expires_at' = token_expires_at)
       /\ RefreshFails(c) =>
            /\ access_token' = access_token
            /\ token_expires_at' = token_expires_at
            /\ result'[c] \in {Raised("ValueError"), Raised("HTTPError")}
            /\ lock' = Free]_vars

C11_Witness ==
  \E t \in Threads :
    /\ Finished(t) /\ result[t] = Raised("HTTPError") /\ exch[t] = 1
    /\ access_token # None /\ access_token = grant.tok
    /\ token_expires_at = grant.at + grant.e

\* C12: without credentials no token is ever issued or returned and no
\* token-exchange request is sent; the first get_token(), at startup, fails
\* with the configuration error, and no tool is ever invoked.
C12_NoCredentialsNoToken ==
  ~creds =>
    /\ issued = 0
    /\ access_token = None
    /\ \A c \in Callers : ~InRefresh(c) /\ pc[c] # "gt_ret" /\ exch[c] = 0
    /\ \A t \in Threads : pc[t] = "idle" /\ headers[t] = None /\ reqs[t] = <<>>
    /\ started = 0
    /\ phase \in {"startup", "aborted"}
    /\ phase = "aborted" <=> result[0] = Raised("ValueError")

C12_Witness ==
  /\ ~creds
  /\ phase = "aborted"
  /\ pc[0] = "aborted"
  /\ result[0] = Raised("ValueError")

\* C13: a tool is invoked, and a request is sent upstream, only after the
\* first token exchange has succeeded and its get_token() has returned; when
\* the first exchange fails the process is aborted, no tool has been or will
\* be invoked and the process stays aborted.
C13_StartupOrdering ==
  /\ [](/\ (started > 0 \/ \E t \in Threads : pc[t] # "idle" \/ reqs[t] # <<>>) =>
             (issued >= 1 /\ phase = "serving" /\ pc[0] = "serving")
        /\ phase = "serving" => (issued >= 1 /\ token_expires_at # None)
        /\ phase = "aborted" =>
             /\ issued = 0 /\ started = 0 /\ result[0].type = "raise"
             /\ \A t \in Threads : pc[t] = "idle" /\ reqs[t] = <<>>)
  /\ [][/\ phase = "aborted" => phase' = "aborted"
        /\ (pc[0] = "rf_net" /\ pc'[0] \notin {"rf_net", "rf_tok"}) => phase' = "aborted"]_vars

C13_Witness ==
  \E t \in Threads :
    /\ phase = "serving" /\ started = 1 /\ issued = 1
    /\ pc[t] = "http" /\ reqs[t][1].auth = 1

\* C14: at most one caller is inside a refresh, and a caller inside
\* get_token()'s critical section is the one that holds the lock.
C14_OneRefreshAtATime ==
  /\ Cardinality({c \in Callers : InRefresh(c)}) <= 1
  /\ \A c \in Callers : (InRefresh(c) \/ pc[c] = "gt_ret") => lock = c

C14_Witness ==
  \E c \in Threads : \E d \in Threads :
    /\ c # d
    /\ pc[c] = "rf_net" /\ ctx[c] = "retry"
    /\ pc[d] = "gt_lock" /\ NeedsRefresh(access_token, token_expires_at, now)

\* C15 as stated: every write to access_token or token_expires_at is made
\* by a caller that holds the lock.
C15_LockDiscipline ==
  [][\A c \in Callers :
       (WritesToken(c) \/ WritesExpiry(c) \/ ForceExpires(c)) => lock = c]_vars

ListLen(v, k) == IF Has(v, k) /\ IsList(v.d[k]) THEN v.d[k].len ELSE 0

\* C16 as stated: whatever integer limit the caller gives, the Limit and
\* limit sent upstream by keyword_search and search_product_substitutions
\* are at most 50, the list search_manufacturers and search_categories
\* return has at most 500 entries, and each media list get_product_media
\* returns has at most 50 entries.
C16_HardMaxima ==
  \A t \in Threads :
    /\ \A i \in DOMAIN reqs[t] :
         /\ Has(reqs[t][i].data, "Limit") => reqs[t][i].data.d["Limit"].v <= 50
         /\ \A j \in DOMAIN reqs[t][i].url.query : reqs[t][i].url.query[j].v <= 50
    /\ (Finished(t) /\ args[t].tool \in ListingTools) =>
         /\ IsList(result[t]) => result[t].len <= 500
         /\ args[t].tool = "search_manufacturers" => ListLen(result[t], "Manufacturers") <= 500
         /\ args[t].tool = "search_categories" => ListLen(result[t], "Categories") <= 500
    /\ (Finished(t) /\ args[t].tool = "get_product_media") =>
         \A k \in MediaTypes : ListLen(result[t], k) <= 50

\* C17: a relay call that was answered 401 and then R, R not being 401,
\* returns what a relay call answered R on its first attempt returns: the
\* value computed from R and the URL the tool asked for; a 200 with JSON
\* body B gives exactly B, and the tool shapes the value as it always does.
C17_TransparentRetry ==
  \A t \in Threads :
    (Finished(t) /\ Len(reqs[t]) = 2 /\ resp[t] # NoResp /\ resp[t].status # 401) =>
      /\ relayed[t] = MakeRequestReturn(Url(args[t]), resp[t])
      /\ result[t] = ToolResult(args[t], MakeRequestReturn(Url(args[t]), resp[t]))
      /\ (resp[t].status = 200 /\ resp[t].body.json) => relayed[t] = resp[t].body.val

C17_Witness ==
  \E t \in Threads :
    /\ Finished(t) /\ Len(reqs[t]) = 2 /\ forced[t] = 1 /\ exch[t] = 1
    /\ resp[t].status = 200 /\ resp[t].body.json
    /\ relayed[t] = resp[t].body.val /\ Truthy(relayed[t])

\* C18: a relay call never makes more than 2 HTTP API calls nor more than
\* 1 forced refresh, whatever the upstream answers, and under fair
\* scheduling with network calls that return, a relay call that has sent
\* its request comes to an end.
C18_BoundedRetry ==
  /\ [](\A t \in Threads : Len(reqs[t]) <= 2 /\ forced[t] <= 1 /\ retry_count[t] <= 1)
  /\ \A t \in Threads : (pc[t] = "http") ~> (pc[t] = "done")

C18_Witness ==
  \A t \in Threads :
    /\ Finished(t) /\ Len(reqs[t]) = 2 /\ forced[t] = 1
    /\ resp[t].status = 401 /\ relayed[t] = ApiError(resp[t])

\* C19: the retried request has the method, the URL, the body and the
\* headers other than Authorization of the first attempt; its Authorization
\* is the token that the get_token() after the force-expire returned; the
\* header mapping the tool passed in still holds the first Authorization.
C19_RetryFrame ==
  /\ [](\A t \in Threads :
          Len(reqs[t]) = 2 =>
            /\ reqs[t][2].method = reqs[t][1].method
            /\ reqs[t][2].url = reqs[t][1].url
            /\ reqs[t][2].data = reqs[t][1].data
            /\ reqs[t][2].other = reqs[t][1].other
            /\ reqs[t][2].auth = headers[t]
            /\ caller_headers[t] = reqs[t][1].auth
            /\ forced[t] = 1)
  /\ [][\A t \in Threads :
          (Returning(t) /\ ctx[t] = "retry") =>
            /\ Len(reqs'[t]) = 2
            /\ reqs'[t][2].auth = access_token
            /\ caller_headers'[t] = caller_headers[t]]_vars

C19_Witness ==
  \E t \in Threads :
    /\ Len(reqs[t]) = 2 /\ args[t].tool = "keyword_search"
    /\ reqs[t][2].method = "POST" /\ Has(reqs[t][2].data, "Limit")
    /\ reqs[t][2].auth # reqs[t][1].auth /\ caller_headers[t] = reqs[t][1].auth

\* C20 as stated: outside the two assignments of a refresh, the cached
\* expiry is the one of the cached token: the time its exchange completed
\* plus its expires_in, 3600 when the provider omitted it.
C20_ExpiryBelongsToToken ==
  (access_token # None /\ \A c \in Callers : pc[c] # "rf_tok") =>
    /\ access_token = grant.tok
    /\ token_expires_at = grant.at + (IF grant.field = Omitted THEN 3600 ELSE grant.field)

\* C20 amended: a successful refresh stores the returned token and then
\* expires_at = now + expires_in, 3600 when the provider omitted it; from
\* then on the cached expiry is the one of the cached token until a caller
\* force-expires it, which leaves the token and sets the expiry to the time
\* of the force-expire, or until the next refresh stores a new token.
C20_RefreshStores ==
  /\ [](/\ (access_token # None /\ expired_by = {} /\ \A c \in Callers : pc[c] # "rf_tok") =>
             /\ access_token = grant.tok
             /\ token_expires_at = grant.at + (IF grant.field = Omitted THEN 3600 ELSE grant.field)
        /\ (expired_by # {} /\ \A c \in Callers : pc[c] # "rf_tok") =>
             (access_token = grant.tok /\ token_expires_at <= now))
  /\ [][\A c \in Callers :
          /\ WritesToken(c) => (access_token' = grant'.tok /\ grant'.at = now)
          /\ WritesExpiry(c) =>
               /\ access_token' = grant.tok
               /\ grant.at = now
               /\ token_expires_at' = now + (IF grant.field = Omitted THEN 3600 ELSE grant.field)]_vars

C20_Witness ==
  \E c \in Threads :
    /\ pc[c] = "gt_ret" /\ exch[c] = 1 /\ now > 0
    /\ grant.field = Omitted /\ access_token = grant.tok
    /\ token_expires_at = now + 3600

\* C21: the tokens of successive exchanges being distinct, the retry after a
\* 401 is sent with a token other than, and newer than, the one the first
\* attempt was sent with, in every interleaving; this includes a force-expire
\* that the expiry store of another caller's refresh, in flight at that
\* moment, overwrites.
C21_RetryTokenDiffers ==
  \A t \in Threads :
    /\ Len(reqs[t]) = 2 =>
         /\ reqs[t][2].auth # reqs[t][1].auth
         /\ reqs[t][2].auth > reqs[t][1].auth
         /\ reqs[t][2].auth \in 1..issued
    /\ (pc[t] = "gt_ret" /\ ctx[t] = "retry") => access_token > reqs[t][1].auth

C21_Witness ==
  \E t \in Threads :
    /\ Len(reqs[t]) = 2 /\ racing[t] /\ exch[t] = 0 /\ since[t] = 1
    /\ reqs[t][2].auth = reqs[t][1].auth + 1

\* C22: a refresh that raises releases the lock and leaves the token in need
\* of a refresh; the lock is only ever held by a caller inside get_token()'s
\* critical section, so no caller waits for a lock nobody will release; a
\* caller that then gets the lock makes a token exchange of its own; under
\* fair scheduling with network calls that return, every caller waiting for
\* the lock gets past it, and a caller whose exchange succeeded returns
\* from get_token() with a token.
C22_NoWedge ==
  /\ [](lock # Free => pc[lock] \in {"rf_net", "rf_tok", "gt_ret"})
  /\ [][\A c \in Callers :
          /\ RefreshFails(c) =>
               /\ lock' = Free
               /\ NeedsRefresh(access_token', token_expires_at', now')
          /\ (Entering(c) /\ creds /\ NeedsRefresh(access_token, token_expires_at, now)) =>
               (pc'[c] = "rf_net" /\ exch'[c] = exch[c] + 1 /\ lock' = c)
          /\ (pc[c] = "gt_ret" /\ pc'[c] # "gt_ret") =>
               (access_token # None /\ lock' = Free)]_vars
  /\ \A t \in Threads : (pc[t] = "gt_lock") ~> (pc[t] # "gt_lock")
  /\ \A t \in Threads : (pc[t] = "rf_tok") ~> (pc[t] = "http" /\ headers[t] # None)

C22_Witness ==
  \E c \in Threads : \E d \in Threads :
    /\ c # d
    /\ Finished(c) /\ result[c] = Raised("HTTPError") /\ exch[c] = 1
    /\ pc[d] = "rf_net" /\ lock = d /\ exch[d] = 1

GetTokenReturns(c) == pc[c] = "gt_ret" /\ pc'[c] # "gt_ret"

\* C23: a get_token() that returns, returns the token the most recent
\* successful exchange stored, which is never absent and never older than a
\* token any caller was given before; a force-expire by another caller
\* between the test of the cache and the return does not change that.
C23_ReturnsLatestToken ==
  /\ [](/\ \A c \in Callers : pc[c] = "gt_ret" =>
             (access_token # None /\ access_token = grant.tok /\ access_token = issued)
        /\ \A t \in Threads :
             /\ headers[t] # None => headers[t] \in 1..access_token
             /\ \A i \in DOMAIN reqs[t] : reqs[t][i].auth \in 1..access_token)
  /\ [][/\ issued' >= issued
        /\ access_token # None => access_token' >= access_token
        /\ \A c \in Callers :
             /\ GetTokenReturns(c) => (access_token # None /\ access_token' = access_token)
             /\ (GetTokenReturns(c) /\ c \in Threads) =>
                  (headers'[c] = issued /\ headers'[c] = grant.tok /\ Sent(c)'.auth = issued)
             /\ ForceExpires(c) => access_token' = access_token]_vars

C23_Witness ==
  \E c \in Threads : \E d \in Threads :
    /\ c # d
    /\ pc[c] = "gt_ret" /\ exch[c] = 0
    /\ d \in expired_by /\ token_expires_at = now
    /\ access_token = grant.tok /\ issued >= 2

====
